---- MODULE Spec2Model ----
(***************************************************************************)
(* copy-bench (src/main.go): a benchmark harness that seeds a bolt store,  *)
(* then times a range scan alone and while a full copy of the store runs.  *)
(* The model follows main and the goroutines it starts statement by        *)
(* statement; the store engine (bolt) is modelled by its transaction       *)
(* contract: a read transaction sees the store as of its start, a          *)
(* read-write transaction publishes its writes on commit or not at all.    *)
(***************************************************************************)
EXTENDS Integers, Sequences, FiniteSets, TLC

(* ---- bounds of the model ---------------------------------------------- *)
\* itemCount and batchSize are compile-time constants of the program
\* (4000000 and 10000); the model draws them from 1..MaxItemCount and
\* 1..MaxBatchSize when the process image is fixed (Init).
MaxItemCount == 4
MaxBatchSize == 2
\* A byte holds ByteBase values (256 in the program).
ByteBase == 2
\* Scan iterations one worker may pass through its poll with no sender waiting.
MaxIter == 2

(* ---- program constants ------------------------------------------------ *)
keySize == 8
\* iteratePct as a fraction (the scenario's 0.5; 0.2 in the program).
iteratePctNum == 1
iteratePctDen == 2

Workers == 1..3
Paths == {"", "db"}

VARIABLES
    itemCount, batchSize,   \* the constants of this build
    viewFaults,             \* whether db.View may fail on the open store
    fileExists,             \* the file at path exists
    bucketExists, store,    \* the "root" bucket and the keys it holds
    pc, exitCode,           \* main's position; the exit status (-1: running)
    diedAt,                 \* history: what ended the process: main's position
                            \* at its log.Fatal or return, "panic" for a panic
    path, isNew,            \* main's locals
    existed,                \* the file existed when the process started
    count, i, j,            \* seed's locals
    txw,                    \* keys put by seed's open read-write transaction
    seedRet,                \* what seed returned: "none" (not yet), "nil", error
    batches, updates,       \* history: the committed batches; db.Update calls
    sendq,                  \* channel c: main is parked in a send
    sent,                   \* history: sends completed
    parkN,                  \* history: each looping worker's n when main parked
    wpc,                    \* iterate: each goroutine's position
    max, n, cnt, cur,       \* iterate's locals: max, n, count, the cursor's key
    snap, txOpen,           \* iterate's read transaction: its view, open or not
    opened, closed,         \* history: transactions each worker began, released
    got,                    \* history: the sends each worker received
    seen,                   \* history: the counts each worker logged
    ov, seenOv,             \* history: iterations open together with the export
    ctxOpen, csnap,         \* dbcopy's read transaction: open or not, its view
    ctxN,                   \* history: transactions dbcopy began
    copied, copyDone        \* what tx.Copy wrote; dbcopy returned nil

vars == <<itemCount, batchSize, viewFaults, fileExists, bucketExists, store,
          pc, exitCode, path, isNew, existed, count, i, j, txw, batches,
          seedRet, updates, sendq, sent, parkN, wpc, max, n, cnt, cur, snap,
          txOpen, got, seen, ov, seenOv, ctxOpen, csnap, copied, copyDone,
          diedAt, opened, closed, ctxN>>

cfgVars == <<itemCount, batchSize, viewFaults, existed>>
exitVars == <<exitCode, diedAt>>
diskVars == <<fileExists, bucketExists, store>>
seedVars == <<count, i, j, txw, batches, seedRet, updates>>
chanVars == <<sendq, sent, parkN>>
workerVars == <<wpc, max, n, cnt, cur, snap, txOpen, opened, closed, got,
                seen, ov, seenOv>>
copyVars == <<ctxOpen, csnap, ctxN, copied, copyDone>>

(* ---- keys: encoding/binary and bytes ---------------------------------- *)
RECURSIVE Pow(_, _)
Pow(b, e) == IF e = 0 THEN 1 ELSE b * Pow(b, e - 1)

\* binary.BigEndian.PutUint64(k, v): most significant byte first.
PutUint64(v) ==
    [p \in 1..keySize |-> (v \div Pow(ByteBase, keySize - p)) % ByteBase]

\* bytes.Compare(a, b): lexicographic, -1, 0 or 1. The first position where
\* the slices differ decides; with none, the shorter slice is the smaller.
bytesCompare(a, b) ==
    LET m == IF Len(a) < Len(b) THEN Len(a) ELSE Len(b)
        diff == {p \in 1..m : a[p] # b[p]}
    IN IF diff = {}
       THEN IF Len(a) < Len(b) THEN -1 ELSE IF Len(a) > Len(b) THEN 1 ELSE 0
       ELSE LET p == CHOOSE q \in diff : \A r \in diff : q <= r
            IN IF a[p] < b[p] THEN -1 ELSE 1

\* A cursor's nil key.
Nil == <<>>

\* Cursor.First / Cursor.Next over the keys a transaction sees, in byte order.
Least(S) == CHOOSE k \in S : \A x \in S : bytesCompare(k, x) <= 0
CursorFirst(keys) == IF keys = {} THEN Nil ELSE Least(keys)
CursorNext(keys, k) ==
    LET rest == {x \in keys : bytesCompare(x, k) = 1}
    IN IF rest = {} THEN Nil ELSE Least(rest)

\* uint64(itemCount*iteratePct): the product is a whole number for the
\* program's constants; a conversion to uint64 drops any fraction.
MaxIndex == (itemCount * iteratePctNum) \div iteratePctDen

(* ---- the process ------------------------------------------------------ *)
ProcInit ==
    /\ pc = "args" /\ exitCode = -1 /\ diedAt = "" /\ path = ""
    /\ isNew = FALSE
    /\ count = 0 /\ i = 0 /\ j = 0 /\ txw = {} /\ batches = <<>>
    /\ seedRet = "none" /\ updates = 0
    /\ sendq = FALSE /\ sent = 0 /\ parkN = [w \in Workers |-> 0]
    /\ wpc = [w \in Workers |-> "none"]
    /\ max = [w \in Workers |-> Nil]
    /\ n = [w \in Workers |-> 0]
    /\ cnt = [w \in Workers |-> 0]
    /\ cur = [w \in Workers |-> Nil]
    /\ snap = [w \in Workers |-> {}]
    /\ txOpen = [w \in Workers |-> FALSE]
    /\ opened = [w \in Workers |-> 0]
    /\ closed = [w \in Workers |-> 0]
    /\ got = [w \in Workers |-> {}]
    /\ seen = [w \in Workers |-> {}]
    /\ ov = [w \in Workers |-> FALSE]
    /\ seenOv = {}
    /\ ctxOpen = FALSE /\ csnap = {} /\ ctxN = 0
    /\ copied = {} /\ copyDone = FALSE

DiskInit == fileExists = FALSE /\ bucketExists = FALSE /\ store = {}

InitWith(faults) ==
    /\ itemCount \in 1..MaxItemCount
    /\ batchSize \in 1..MaxBatchSize
    /\ viewFaults \in faults
    /\ DiskInit
    /\ existed = FALSE
    /\ ProcInit

Init == InitWith({FALSE})

\* log.Fatal (status 1), a panic (status 2), or return from main (status 0):
\* the process and its goroutines end.
Exit(code) ==
    /\ pc' = "done"
    /\ exitCode' = code
    /\ diedAt' = IF code = 2 THEN "panic" ELSE pc

Alive == pc # "done"

(* ---- main: arguments, open, seeding decision (lines 23-54) ------------ *)
\* A read-only transaction on the open store begins, unless the build of the
\* model lets db.View fail.
ViewOutcomes == IF viewFaults THEN BOOLEAN ELSE {TRUE}

\* flag.Arg(0); log.Fatal("usage") on an empty path.
MainArgs ==
    /\ pc = "args"
    /\ \E p \in Paths :
        /\ path' = p
        /\ IF p = "" THEN Exit(1) ELSE pc' = "stat_file" /\ UNCHANGED exitVars
    /\ UNCHANGED <<cfgVars, diskVars, isNew, seedVars, chanVars,
                   workerVars, copyVars>>

\* os.Stat(path); isNew := os.IsNotExist(err)
MainStatFile ==
    /\ pc = "stat_file"
    /\ isNew' = ~fileExists
    /\ pc' = "open"
    /\ UNCHANGED <<cfgVars, diskVars, exitVars, path, seedVars, chanVars,
                   workerVars, copyVars>>

\* bolt.Open(path, 0600): creates the file when absent; log.Fatal on error.
MainOpen ==
    /\ pc = "open"
    /\ \/ /\ fileExists' = TRUE
          /\ pc' = "seed_check"
          /\ UNCHANGED exitVars
       \/ /\ fileExists' \in {fileExists, TRUE}
          /\ Exit(1)
    /\ UNCHANGED <<cfgVars, bucketExists, store, path, isNew, seedVars,
                   chanVars, workerVars, copyVars>>

\* if isNew { seed(db) }
SeedInvokedAlways == pc' = "seed_for"
SeedInvoked == pc' = IF isNew THEN "seed_for" ELSE "stat"
MainSeedCheck ==
    /\ pc = "seed_check"
    /\ SeedInvoked
    /\ UNCHANGED <<cfgVars, diskVars, exitVars, path, isNew, seedVars,
                   chanVars, workerVars, copyVars>>

(* ---- seed (lines 85-123) ---------------------------------------------- *)
\* seed returns err and main calls log.Fatal(err) (lines 110-112, 46-48).
SeedReturnIgnored(err) ==
    seedRet' = err /\ pc' = "seed_log" /\ UNCHANGED exitVars
SeedReturn(err) == seedRet' = err /\ Exit(1)

\* The key of the record being put (line 99).
SeedKeyByJ == PutUint64(j)
SeedKey == PutUint64(count)

\* db.Update commits fn's writes as one transaction, or rolls all of them back.
TxRollback == UNCHANGED <<store, bucketExists>>
TxCommit == store' = store \cup txw /\ bucketExists' = TRUE

\* for i := 0; i < itemCount; i += batchSize
SeedFor ==
    /\ pc = "seed_for"
    /\ pc' = IF i < itemCount THEN "seed_update" ELSE "seed_verify"
    /\ UNCHANGED <<cfgVars, diskVars, exitVars, path, isNew, seedVars,
                   chanVars, workerVars, copyVars>>

\* db.Update begins a read-write transaction and calls fn.
SeedUpdate ==
    /\ pc = "seed_update"
    /\ updates' = updates + 1
    /\ \/ /\ txw' = {} /\ j' = 0
          /\ pc' = "seed_bucket"
          /\ UNCHANGED <<exitVars, seedRet>>
       \/ /\ SeedReturn("begin")
          /\ UNCHANGED <<txw, j>>
    /\ UNCHANGED <<cfgVars, diskVars, path, isNew, count, i, batches,
                   chanVars, workerVars, copyVars>>

\* tx.CreateBucketIfNotExists([]byte("root"))
SeedBucket ==
    /\ pc = "seed_bucket"
    /\ \/ /\ pc' = "seed_put"
          /\ UNCHANGED <<exitVars, seedRet, txw, store, bucketExists>>
       \/ /\ SeedReturn("create bucket")
          /\ TxRollback
          /\ txw' = {}
    /\ UNCHANGED <<cfgVars, fileExists, path, isNew, count, i, j, batches,
                   updates, chanVars, workerVars, copyVars>>

\* for j := 0; j < batchSize; j++ { b.Put(k, v); count++ }
SeedPut ==
    /\ pc = "seed_put"
    /\ j < batchSize
    /\ \/ /\ txw' = txw \cup {SeedKey}
          /\ count' = count + 1
          /\ j' = j + 1
          /\ UNCHANGED <<pc, exitVars, seedRet, store, bucketExists>>
       \/ /\ SeedReturn("put")
          /\ TxRollback
          /\ txw' = {}
          /\ UNCHANGED <<count, j>>
    /\ UNCHANGED <<cfgVars, fileExists, path, isNew, i, batches,
                   updates, chanVars, workerVars, copyVars>>

\* fn returns nil (size = tx.Size()); Update commits.
SeedCommit ==
    /\ pc = "seed_put"
    /\ j >= batchSize
    /\ \/ /\ TxCommit
          /\ batches' = Append(batches, txw)
          /\ pc' = "seed_log"
          /\ UNCHANGED <<exitVars, seedRet>>
       \/ /\ TxRollback
          /\ SeedReturn("commit")
          /\ UNCHANGED batches
    /\ txw' = {}
    /\ UNCHANGED <<cfgVars, fileExists, path, isNew, count, i, j,
                   updates, chanVars, workerVars, copyVars>>

\* A loop that steps by one record: i++
SeedLogStepOne ==
    /\ pc = "seed_log"
    /\ i' = i + 1
    /\ pc' = "seed_for"
    /\ UNCHANGED <<cfgVars, diskVars, exitVars, path, isNew, count, j,
                   txw, batches, seedRet, updates, chanVars, workerVars,
                   copyVars>>

\* log.Printf("  %d rows, %d bytes"); i += batchSize
SeedLog ==
    /\ pc = "seed_log"
    /\ i' = i + batchSize
    /\ pc' = "seed_for"
    /\ UNCHANGED <<cfgVars, diskVars, exitVars, path, isNew, count, j,
                   txw, batches, seedRet, updates, chanVars, workerVars,
                   copyVars>>

\* if count != itemCount { return fmt.Errorf("invalid insert count") }
SeedVerify ==
    /\ pc = "seed_verify"
    /\ IF count # itemCount
       THEN SeedReturn("count")
       ELSE pc' = "stat" /\ seedRet' = "nil" /\ UNCHANGED exitVars
    /\ UNCHANGED <<cfgVars, diskVars, path, isNew, count, i, j, txw,
                   batches, updates, chanVars, workerVars, copyVars>>

(* ---- stat (lines 126-132) --------------------------------------------- *)
MainStat ==
    /\ pc = "stat"
    /\ \E ok \in ViewOutcomes :
        IF ok THEN pc' = "go1" /\ UNCHANGED exitVars ELSE Exit(1)
    /\ UNCHANGED <<cfgVars, diskVars, path, isNew, seedVars, chanVars,
                   workerVars, copyVars>>

(* ---- main: the three phases (lines 56-82) ----------------------------- *)
GoPc(w) == <<"go1", "go2", "go3">>[w]
\* What main does after each go statement: send, sleep, dbcopy.
AfterGoStopFirst(w) == <<"send1", "sleep2", "send3">>[w]
AfterGo(w) == <<"send1", "sleep2", "copy_view">>[w]
SendPcs == {"send1", "send2", "send3"}
\* Where main resumes once its send has been received.
SendDone(p) ==
    CASE p = "send1" -> "go2"
      [] p = "send2" -> "go3"
      [] p = "send3" -> "grace"

\* go iterate(db, c); the history of the previous send is cleared.
MainGo(w) ==
    /\ pc = GoPc(w)
    /\ wpc' = [wpc EXCEPT ![w] = "start"]
    /\ pc' = AfterGo(w)
    /\ parkN' = [v \in Workers |-> 0]
    /\ UNCHANGED <<cfgVars, diskVars, exitVars, path, isNew, seedVars,
                   sendq, sent, max, n, cnt, cur, snap, txOpen, opened, closed,
                   got, seen, ov, seenOv, copyVars>>

\* A send that does not wait for a receiver: the token is dropped.
MainSendNonBlocking ==
    /\ pc \in SendPcs
    /\ pc' = SendDone(pc)
    /\ UNCHANGED <<cfgVars, diskVars, exitVars, path, isNew, seedVars,
                   chanVars, workerVars, copyVars>>

\* A send on a channel with a buffer of one: the token is left in the
\* buffer and main goes on.
MainSendBuffered ==
    /\ pc \in SendPcs
    /\ ~sendq
    /\ sendq' = TRUE
    /\ pc' = SendDone(pc)
    /\ UNCHANGED <<cfgVars, diskVars, exitVars, path, isNew, seedVars,
                   sent, parkN, workerVars, copyVars>>

\* c <- true: no receiver ever waits on c, so main parks in the send queue.
MainSend ==
    /\ pc \in SendPcs
    /\ ~sendq
    /\ sendq' = TRUE
    /\ parkN' = [w \in Workers |->
                    IF wpc[w] \in {"report", "done"} THEN 0 ELSE n[w]]
    /\ UNCHANGED <<cfgVars, diskVars, pc, exitVars, path, isNew, seedVars,
                   sent, workerVars, copyVars>>

\* time.Sleep(2 * time.Second)
MainSleep ==
    /\ pc = "sleep2"
    /\ pc' = "send2"
    /\ UNCHANGED <<cfgVars, diskVars, exitVars, path, isNew, seedVars,
                   chanVars, workerVars, copyVars>>

\* time.Sleep(100 * time.Millisecond)
MainGrace ==
    /\ pc = "grace"
    /\ pc' = "return"
    /\ UNCHANGED <<cfgVars, diskVars, exitVars, path, isNew, seedVars,
                   chanVars, workerVars, copyVars>>

\* main returns: exit status 0.
MainReturn ==
    /\ pc = "return"
    /\ Exit(0)
    /\ UNCHANGED <<cfgVars, diskVars, path, isNew, seedVars, chanVars,
                   workerVars, copyVars>>

(* ---- dbcopy (lines 170-181) ------------------------------------------- *)
\* What tx.Copy writes of the transaction's view.
TxCopy(view) == view

\* db.View begins dbcopy's read transaction.
CopyView ==
    /\ pc = "copy_view"
    /\ \E ok \in ViewOutcomes :
        IF ok
        THEN /\ ctxOpen' = TRUE
             /\ ctxN' = ctxN + 1
             /\ csnap' = store
             /\ ov' = [w \in Workers |-> ov[w] \/ txOpen[w]]
             /\ pc' = "copy_stream"
             /\ UNCHANGED exitVars
        ELSE /\ Exit(1)
             /\ UNCHANGED <<ctxOpen, csnap, ctxN, ov>>
    /\ UNCHANGED <<cfgVars, diskVars, path, isNew, seedVars, chanVars,
                   wpc, max, n, cnt, cur, snap, txOpen, opened, closed, got,
                   seen, seenOv, copied, copyDone>>

\* tx.Copy(ioutil.Discard); on an error View releases the transaction and
\* main calls log.Fatal.
CopyStream ==
    /\ pc = "copy_stream"
    /\ \/ /\ copied' = TxCopy(csnap)
          /\ pc' = "copy_ret"
          /\ UNCHANGED <<exitVars, ctxOpen>>
       \/ /\ ctxOpen' = FALSE
          /\ Exit(1)
          /\ UNCHANGED copied
    /\ UNCHANGED <<cfgVars, diskVars, path, isNew, seedVars, chanVars,
                   workerVars, csnap, ctxN, copyDone>>

\* dbcopy returns with its transaction still open.
CopyRetLeak ==
    /\ pc = "copy_ret"
    /\ copyDone' = TRUE
    /\ pc' = "send3"
    /\ UNCHANGED <<cfgVars, diskVars, exitVars, path, isNew, seedVars,
                   chanVars, workerVars, ctxOpen, csnap, ctxN, copied>>

\* View releases the transaction; fmt.Printf("copy: %v\n"); return nil
CopyRet ==
    /\ pc = "copy_ret"
    /\ ctxOpen' = FALSE
    /\ copyDone' = TRUE
    /\ pc' = "send3"
    /\ UNCHANGED <<cfgVars, diskVars, exitVars, path, isNew, seedVars,
                   chanVars, workerVars, csnap, ctxN, copied>>

(* ---- iterate (lines 135-167) ------------------------------------------ *)
\* The cursor loop's condition: k != nil && bytes.Compare(k, max) == -1
ScanMoreInclusive(k, m) == k # Nil /\ bytesCompare(k, m) <= 0
ScanMore(k, m) == k # Nil /\ bytesCompare(k, m) = -1

\* var count int, declared inside the loop body.
NewCountKept(w) == cnt[w]
NewCount(w) == 0

\* case <-c: break loop
AfterRecvBreakSelect == "top"
AfterRecv == "report"

\* default: falls out of the select and the for loop goes round.
AfterDefaultBreak == "report"
AfterDefault == "top"

\* A loop that polls c before its first iteration.
WStartPollFirst(w) ==
    /\ Alive
    /\ wpc[w] = "start"
    /\ max' = [max EXCEPT ![w] = PutUint64(MaxIndex)]
    /\ n' = [n EXCEPT ![w] = 0]
    /\ wpc' = [wpc EXCEPT ![w] = "poll"]
    /\ UNCHANGED <<cfgVars, diskVars, pc, exitVars, path, isNew, seedVars,
                   chanVars, cnt, cur, snap, txOpen, opened, closed, got, seen,
                   ov, seenOv, copyVars>>

\* max := PutUint64(uint64(itemCount*iteratePct)); var d; var n
WStart(w) ==
    /\ Alive
    /\ wpc[w] = "start"
    /\ max' = [max EXCEPT ![w] = PutUint64(MaxIndex)]
    /\ n' = [n EXCEPT ![w] = 0]
    /\ wpc' = [wpc EXCEPT ![w] = "top"]
    /\ UNCHANGED <<cfgVars, diskVars, pc, exitVars, path, isNew, seedVars,
                   chanVars, cnt, cur, snap, txOpen, opened, closed, got, seen,
                   ov, seenOv, copyVars>>

\* t := time.Now(); var count int; db.View begins a read transaction and
\* fn takes tx.Bucket("root").Cursor() and c.First(). With no "root" bucket
\* tx.Bucket returns nil and Cursor() panics: the process dies. The value
\* View returns is dropped: when it fails, fn has not run.
WView(w) ==
    /\ Alive
    /\ wpc[w] = "top"
    /\ \E ok \in ViewOutcomes :
        IF ~ok
        THEN /\ cnt' = [cnt EXCEPT ![w] = NewCount(w)]
             /\ wpc' = [wpc EXCEPT ![w] = "log"]
             /\ ov' = [ov EXCEPT ![w] = FALSE]
             /\ UNCHANGED <<pc, exitVars, txOpen, opened, closed, snap, cur>>
        ELSE IF ~bucketExists
        THEN /\ Exit(2)
             /\ UNCHANGED <<cnt, wpc, txOpen, opened, closed, snap, cur, ov>>
        ELSE /\ txOpen' = [txOpen EXCEPT ![w] = TRUE]
             /\ opened' = [opened EXCEPT ![w] = opened[w] + 1]
             /\ snap' = [snap EXCEPT ![w] = store]
             /\ cnt' = [cnt EXCEPT ![w] = NewCount(w)]
             /\ cur' = [cur EXCEPT ![w] = CursorFirst(store)]
             /\ ov' = [ov EXCEPT ![w] = ctxOpen]
             /\ wpc' = [wpc EXCEPT ![w] = "walk"]
             /\ UNCHANGED <<pc, exitVars, closed>>
    /\ UNCHANGED <<cfgVars, diskVars, path, isNew, seedVars, chanVars,
                   max, n, got, seen, seenOv, copyVars>>

\* for k, _ := c.First(); k != nil && bytes.Compare(k, max) == -1;
\*     k, _ = c.Next() { count++ }
WWalk(w) ==
    /\ Alive
    /\ wpc[w] = "walk"
    /\ IF ScanMore(cur[w], max[w])
       THEN /\ cnt' = [cnt EXCEPT ![w] = cnt[w] + 1]
            /\ cur' = [cur EXCEPT ![w] = CursorNext(snap[w], cur[w])]
            /\ UNCHANGED wpc
       ELSE /\ wpc' = [wpc EXCEPT ![w] = "close"]
            /\ UNCHANGED <<cnt, cur>>
    /\ UNCHANGED <<cfgVars, diskVars, pc, exitVars, path, isNew, seedVars,
                   chanVars, max, n, snap, txOpen, opened, closed, got, seen,
                   ov, seenOv, copyVars>>

\* The transaction is left open when fn returns.
WCloseLeak(w) ==
    /\ Alive
    /\ wpc[w] = "close"
    /\ wpc' = [wpc EXCEPT ![w] = "log"]
    /\ UNCHANGED <<cfgVars, diskVars, pc, exitVars, path, isNew, seedVars,
                   chanVars, max, n, cnt, cur, snap, txOpen, opened, closed,
                   got, seen, ov, seenOv, copyVars>>

\* fn returns nil and View releases the transaction.
WClose(w) ==
    /\ Alive
    /\ wpc[w] = "close"
    /\ txOpen' = [txOpen EXCEPT ![w] = FALSE]
    /\ closed' = [closed EXCEPT ![w] = closed[w] + 1]
    /\ snap' = [snap EXCEPT ![w] = {}]
    /\ cur' = [cur EXCEPT ![w] = Nil]
    /\ wpc' = [wpc EXCEPT ![w] = "log"]
    /\ UNCHANGED <<cfgVars, diskVars, pc, exitVars, path, isNew, seedVars,
                   chanVars, max, n, cnt, opened, got, seen, ov, seenOv,
                   copyVars>>

\* The log line without n++.
WLogNoCount(w) ==
    /\ Alive
    /\ wpc[w] = "log"
    /\ seen' = [seen EXCEPT ![w] = seen[w] \cup {cnt[w]}]
    /\ seenOv' = IF ov[w] THEN seenOv \cup {cnt[w]} ELSE seenOv
    /\ wpc' = [wpc EXCEPT ![w] = "poll"]
    /\ UNCHANGED <<cfgVars, diskVars, pc, exitVars, path, isNew, seedVars,
                   chanVars, max, n, cnt, cur, snap, txOpen, opened, closed,
                   got, ov, copyVars>>

\* log.Printf("  iterate: %v (n=%d)", ..., count); d += ...; n++
WLog(w) ==
    /\ Alive
    /\ wpc[w] = "log"
    /\ seen' = [seen EXCEPT ![w] = seen[w] \cup {cnt[w]}]
    /\ seenOv' = IF ov[w] THEN seenOv \cup {cnt[w]} ELSE seenOv
    /\ n' = [n EXCEPT ![w] = n[w] + 1]
    /\ wpc' = [wpc EXCEPT ![w] = "poll"]
    /\ UNCHANGED <<cfgVars, diskVars, pc, exitVars, path, isNew, seedVars,
                   chanVars, max, cnt, cur, snap, txOpen, opened, closed, got,
                   ov, copyVars>>

\* select { case <-c: break loop; default: }: the receive is taken when a
\* sender is parked on c, and completes that send; otherwise default runs
\* and the loop goes round.
WPoll(w) ==
    /\ Alive
    /\ wpc[w] = "poll"
    /\ IF sendq
       THEN /\ sendq' = FALSE
            /\ sent' = sent + 1
            /\ got' = [got EXCEPT ![w] = got[w] \cup {pc}]
            /\ pc' = IF pc \in SendPcs THEN SendDone(pc) ELSE pc
            /\ wpc' = [wpc EXCEPT ![w] = AfterRecv]
       ELSE /\ n[w] < MaxIter
            /\ wpc' = [wpc EXCEPT ![w] = AfterDefault]
            /\ UNCHANGED <<sendq, sent, got, pc>>
    /\ UNCHANGED <<cfgVars, diskVars, exitVars, path, isNew, seedVars,
                   parkN, max, n, cnt, cur, snap, txOpen, opened, closed, seen,
                   ov, seenOv, copyVars>>

\* fmt.Printf("iterate: avg: %v (n=%d)\n", d / time.Duration(n), n): an
\* integer division, which panics when n is 0. The goroutine then returns
\* and its locals are gone.
WReport(w) ==
    /\ Alive
    /\ wpc[w] = "report"
    /\ IF n[w] = 0
       THEN Exit(2) /\ UNCHANGED <<wpc, n, cnt, max, opened, closed>>
       ELSE /\ wpc' = [wpc EXCEPT ![w] = "done"]
            /\ n' = [n EXCEPT ![w] = 0]
            /\ cnt' = [cnt EXCEPT ![w] = 0]
            /\ max' = [max EXCEPT ![w] = Nil]
            /\ opened' = [opened EXCEPT ![w] = 0]
            /\ closed' = [closed EXCEPT ![w] = 0]
            /\ UNCHANGED <<pc, exitVars>>
    /\ UNCHANGED <<cfgVars, diskVars, path, isNew, seedVars, chanVars,
                   cur, snap, txOpen, got, seen, ov, seenOv, copyVars>>

(* ---- the process run again on the same path --------------------------- *)
\* Any number of runs: the file and its records are all a run inherits.
Restart ==
    /\ pc = "done"
    /\ pc' = "args" /\ exitCode' = -1 /\ diedAt' = "" /\ path' = ""
    /\ isNew' = FALSE
    /\ count' = 0 /\ i' = 0 /\ j' = 0 /\ txw' = {} /\ batches' = <<>>
    /\ seedRet' = "none" /\ updates' = 0
    /\ sendq' = FALSE /\ sent' = 0 /\ parkN' = [w \in Workers |-> 0]
    /\ wpc' = [w \in Workers |-> "none"]
    /\ max' = [w \in Workers |-> Nil]
    /\ n' = [w \in Workers |-> 0]
    /\ cnt' = [w \in Workers |-> 0]
    /\ cur' = [w \in Workers |-> Nil]
    /\ snap' = [w \in Workers |-> {}]
    /\ txOpen' = [w \in Workers |-> FALSE]
    /\ opened' = [w \in Workers |-> 0]
    /\ closed' = [w \in Workers |-> 0]
    /\ got' = [w \in Workers |-> {}]
    /\ seen' = [w \in Workers |-> {}]
    /\ ov' = [w \in Workers |-> FALSE]
    /\ seenOv' = {}
    /\ ctxOpen' = FALSE /\ csnap' = {} /\ ctxN' = 0
    /\ copied' = {} /\ copyDone' = FALSE
    /\ existed' = fileExists
    /\ UNCHANGED <<itemCount, batchSize, viewFaults, diskVars>>

(* ---- specifications --------------------------------------------------- *)
Seed == SeedFor \/ SeedUpdate \/ SeedBucket \/ SeedPut \/ SeedCommit
        \/ SeedLog \/ SeedVerify
Copy == CopyView \/ CopyStream \/ CopyRet
Main == MainArgs \/ MainStatFile \/ MainOpen \/ MainSeedCheck \/ Seed
        \/ MainStat \/ (\E w \in Workers : MainGo(w)) \/ MainSend
        \/ MainSleep \/ Copy \/ MainGrace \/ MainReturn
Worker(w) == WStart(w) \/ WView(w) \/ WWalk(w) \/ WClose(w) \/ WLog(w)
             \/ WPoll(w) \/ WReport(w)

Next == Main \/ (\E w \in Workers : Worker(w)) \/ Restart

\* On the open store, which nothing closes, a read-only transaction begins
\* and an fn that returns nil makes View return nil.
Spec == Init /\ [][Next]_vars

\* The same program with a db.View that may fail.
FaultInit == InitWith(BOOLEAN)
FaultSpec == FaultInit /\ [][Next]_vars

\* The Go scheduler runs every runnable goroutine: main and each started
\* worker keep taking steps while they can. A new run of the process is
\* not owed. Checked for the largest build of the model.
FairInit == Init /\ itemCount = MaxItemCount /\ batchSize = MaxBatchSize
FairSpec ==
    /\ FairInit
    /\ [][Next]_vars
    /\ WF_vars(Main)
    /\ \A w \in Workers : WF_vars(Worker(w))

(* ---- vocabulary of the properties ------------------------------------- *)
\* The goroutine has been started and has not left its for loop: it can
\* still reach the select and receive from c.
InLoop(w) == wpc[w] \in {"start", "top", "walk", "close", "log", "poll"}
LeftLoop(w) == wpc[w] \in {"report", "done"}
SendPc(w) == <<"send1", "send2", "send3">>[w]
SeedPcs == {"seed_for", "seed_update", "seed_bucket", "seed_put", "seed_log",
            "seed_verify"}
PhasePcs == {"go1", "send1", "go2", "sleep2", "send2", "go3", "copy_view",
             "copy_stream", "copy_ret", "send3", "grace", "return"}
\* The encoded keys of the indices lo..hi.
KeysOf(lo, hi) == {PutUint64(k) : k \in lo..hi}
FullySeeded == bucketExists /\ store = KeysOf(0, itemCount - 1)
\* The keys of a view strictly below the scan bound.
Below(view) ==
    LET bound == PutUint64(MaxIndex)
    IN {k \in view : bytesCompare(k, bound) = -1}

(* ---- C1 --------------------------------------------------------------- *)
\* C1: hand-off exclusivity. In every reachable state at most one iterate
\* goroutine is still inside its scan loop; every token main has sent was
\* received by exactly one worker, the one started in the same phase, and a
\* worker that received a token has left its loop for good.
C1_HandOffExclusivity ==
    /\ \A v, w \in Workers : InLoop(v) /\ InLoop(w) => v = w
    /\ \A w \in Workers : got[w] \subseteq {SendPc(w)}
    /\ \A w \in Workers : got[w] # {} => LeftLoop(w)
    /\ sent = Cardinality({w \in Workers : got[w] # {}})

\* All three tokens were handed over, each to its own phase's worker.
C1_Witness ==
    /\ sent = 3
    /\ \A w \in Workers : got[w] = {SendPc(w)}

(* ---- C2 --------------------------------------------------------------- *)
\* C2 as stated: when the worker of the next phase is started, the previous
\* phase's worker has already printed its "iterate: avg" report.
C2_ReportBeforeNextStart ==
    \A w \in 2..3 : wpc[w] # "none" => wpc[w - 1] = "done"

\* C2 as amended: when the worker of the next phase is started, the previous
\* phase's worker has received its stop token and left its scan loop with
\* no transaction open; its report may still be pending.
C2_StoppedBeforeNextStart ==
    \A w \in 2..3 :
        wpc[w] # "none" =>
            /\ LeftLoop(w - 1)
            /\ got[w - 1] = {SendPc(w - 1)}
            /\ ~txOpen[w - 1]

\* The next worker is already scanning while the previous report is pending.
C2_Witness ==
    \E w \in 2..3 : wpc[w] = "walk" /\ wpc[w - 1] = "report"

(* ---- C3 --------------------------------------------------------------- *)
\* C3: in phase 3 the worker is started before the export's transaction
\* begins, no token is being sent or is received while that transaction is
\* open, and the phase-3 worker is stopped only after dbcopy has returned.
C3_StopAfterCopy ==
    /\ (ctxOpen \/ pc \in {"copy_stream", "copy_ret"}) =>
           /\ wpc[3] # "none"
           /\ ~sendq
           /\ sent = 2
           /\ got[3] = {}
    /\ (got[3] # {} \/ LeftLoop(3)) => copyDone /\ ~ctxOpen
    /\ (pc = "send3" \/ (sendq /\ sent = 2)) => copyDone /\ ~ctxOpen

\* The phase-3 worker scanned while the export was open and was stopped later.
C3_Witness ==
    /\ got[3] = {"send3"}
    /\ copyDone /\ copied = store /\ store # {}
    /\ seenOv # {}

(* ---- C4 --------------------------------------------------------------- *)
\* The steps below are those of a running process (Alive).
C4_State(w) ==
    /\ LeftLoop(w) => ~txOpen[w]
    /\ got[w] # {} => ~txOpen[w]
    /\ (sendq /\ InLoop(w)) => n[w] <= parkN[w] + 1

C4_Step(w) ==
    \* a token is received only at the poll, with the transaction closed
    /\ got'[w] # got[w] =>
           wpc[w] = "poll" /\ ~txOpen[w] /\ wpc'[w] = "report"
    \* a transaction is opened only at the top of the loop, by a worker
    \* that has received no token
    /\ (~txOpen[w] /\ txOpen'[w]) => wpc[w] = "top" /\ got[w] = {}
    \* the poll does not wait: with a sender parked it receives, with none
    \* it goes straight to the next iteration
    /\ (wpc[w] = "poll" /\ wpc'[w] # "poll") =>
           IF sendq
           THEN got'[w] = got[w] \cup {pc} /\ wpc'[w] = "report"
           ELSE got'[w] = got[w] /\ wpc'[w] = "top"

\* C4 as amended: cooperative cancellation. A worker receives a stop token
\* only at its poll, with its transaction closed; it never leaves its loop
\* with a transaction open, never opens one after receiving a token and
\* never waits at the poll. Once main is parked in its send the worker
\* completes at most one iteration (the one in flight, or its first one when
\* it had not yet entered its loop) and receives the token at its next poll.
C4_Cooperative ==
    /\ [](\A w \in Workers : C4_State(w))
    /\ [][Alive => \A w \in Workers : C4_Step(w)]_vars

\* C4 as stated: as above, and no worker begins an iteration (reaches the
\* top of its loop) while a sender is waiting on c.
C4_NoIterationStartsWhileSending ==
    /\ [](\A w \in Workers : C4_State(w))
    /\ [][Alive =>
            \A w \in Workers :
                /\ C4_Step(w)
                /\ ~(sendq /\ wpc[w] # "top" /\ wpc'[w] = "top")]_vars

\* Main parked during an iteration of the phase-2 worker, which finished
\* that iteration and then received the token.
C4_Witness ==
    /\ got[2] = {"send2"}
    /\ parkN[2] >= 1
    /\ n[2] = parkN[2] + 1

(* ---- C5 --------------------------------------------------------------- *)
\* The process ended on a fatal error or a panic.
Died == pc = "done" /\ exitCode # 0

\* C5: termination without deadlock or leaked workers. Under fair
\* scheduling, unless the process dies on a fatal error, each blocking send
\* completes, each worker leaves its loop and main reaches its return; a
\* run that returns has sent exactly three tokens to three workers, all of
\* which have left their loops; and main is never parked in a send without
\* the worker of that phase still in its loop to receive it.
C5_Terminates ==
    /\ []((Alive /\ sendq) =>
            \E w \in Workers : pc = SendPc(w) /\ InLoop(w))
    /\ []((pc = "done" /\ exitCode = 0) =>
            /\ sent = 3
            /\ \A w \in Workers : LeftLoop(w) /\ got[w] = {SendPc(w)})
    \* a parked send is received
    /\ sendq ~> (~sendq \/ Died)
    \* a worker in its loop leaves it (no worker ever re-enters its loop)
    /\ (\E w \in Workers : InLoop(w)) ~>
           ((\A w \in Workers : ~InLoop(w)) \/ Died)
    \* main reaches process exit
    /\ Alive ~> (pc = "done")

\* A run returned from main with all three workers reported.
C5_Witness ==
    /\ pc = "done" /\ exitCode = 0
    /\ sent = 3
    /\ \A w \in Workers : wpc[w] = "done" /\ seen[w] # {}

(* ---- C6 --------------------------------------------------------------- *)
\* C6: seed completeness. When seed has returned nil, the "root" bucket holds
\* exactly itemCount records, their keys the big-endian encodings of
\* 0..itemCount-1, written by itemCount/batchSize transactions of batchSize
\* records each, transaction b (from 0) holding keys b*batchSize ..
\* b*batchSize+batchSize-1.
C6_SeedComplete ==
    seedRet = "nil" =>
        /\ bucketExists
        /\ store = KeysOf(0, itemCount - 1)
        /\ Cardinality(store) = itemCount
        /\ Len(batches) * batchSize = itemCount
        /\ updates = Len(batches)
        /\ \A b \in 1..Len(batches) :
            /\ batches[b] = KeysOf((b - 1) * batchSize, b * batchSize - 1)
            /\ Cardinality(batches[b]) = batchSize

\* Seeding succeeded with more than one batch of more than one record.
C6_Witness ==
    /\ seedRet = "nil"
    /\ batchSize > 1
    /\ Len(batches) > 1

(* ---- C7 --------------------------------------------------------------- *)
\* C7: scan boundedness. Every count a worker logs is the number of keys of
\* its view strictly below the key of index floor(itemCount * iteratePct);
\* over a fully seeded store that is floor(itemCount * iteratePct) in every
\* iteration of every worker, and the cursor walk has stopped on the first
\* key not below the bound.
C7_ScanBounded ==
    LET below == Cardinality(Below(store))
        full == FullySeeded
        bound == PutUint64(MaxIndex)
    IN \A w \in Workers :
        /\ seen[w] # {} =>
               /\ seen[w] = {below}
               /\ full => seen[w] = {MaxIndex}
        /\ wpc[w] = "close" =>
               /\ cnt[w] = Cardinality(Below(snap[w]))
               /\ cur[w] = CursorFirst(snap[w] \ Below(snap[w]))
               /\ full => cnt[w] = MaxIndex /\ cur[w] = bound /\ max[w] = bound

\* A worker has logged two iterations over the fully seeded store, both
\* with the same non-zero count, short of the whole store.
C7_Witness ==
    \E w \in Workers :
        /\ FullySeeded
        /\ n[w] >= 2
        /\ seen[w] = {MaxIndex}
        /\ MaxIndex >= 2
        /\ MaxIndex < itemCount

(* ---- C8 --------------------------------------------------------------- *)
\* C8: snapshot isolation as the harness observes it. Every scan iteration
\* whose transaction was open together with the export's transaction logs
\* the same count as the iterations of the phase-2 worker, which ran alone,
\* and the export has read the whole store.
C8_SnapshotIsolation ==
    /\ \A c \in seenOv : \A a \in seen[2] : c = a
    /\ seenOv # {} => seen[2] # {}
    /\ \A w \in Workers : (txOpen[w] /\ ctxOpen) => snap[w] = csnap
    /\ (pc = "copy_ret" \/ copyDone) => copied = store

\* An iteration overlapped the export over a store with keys on both sides
\* of the bound, and the export completed.
C8_Witness ==
    /\ seenOv # {}
    /\ copyDone
    /\ Below(store) # {}
    /\ Below(store) # store

(* ---- C9 --------------------------------------------------------------- *)
SeedEntered == pc \in SeedPcs \/ seedRet # "none"
PastSeedCheck ==
    pc \in SeedPcs \cup {"stat"} \cup PhasePcs \/ (pc = "done" /\ exitCode = 0)

\* C9: idempotent re-run and read-only phases. seed is invoked if and only
\* if the store file did not exist when the process started; outside seed no
\* step changes the records, so a run against an existing store leaves them
\* as they were.
C9_SeedOnlyWhenNew ==
    /\ [](SeedEntered => ~existed)
    /\ []((PastSeedCheck /\ ~existed) => SeedEntered)
    /\ []((existed /\ pc # "args") => fileExists)
    /\ [][(pc \notin SeedPcs \/ existed) =>
              store' = store /\ bucketExists' = bucketExists]_vars

\* A second run against the fully seeded file went through all phases.
C9_Witness ==
    /\ existed
    /\ seedRet = "none"
    /\ FullySeeded /\ itemCount > 1
    /\ pc = "done" /\ exitCode = 0

(* ---- C10 -------------------------------------------------------------- *)
SeedTxErrors == {"begin", "create bucket", "put", "commit"}

\* C10: seeding aborts on a failed batch. When the Update of the batch that
\* starts at index i has failed, seed has returned the error and main has
\* exited fatally: that batch was the last one attempted and was attempted
\* once, the store holds exactly the records 0..i-1 of the batches that
\* committed, and neither inspection nor any scan phase has run.
C10_SeedAbort ==
    seedRet \in SeedTxErrors =>
        /\ pc = "done" /\ exitCode = 1
        /\ i % batchSize = 0
        /\ updates = (i \div batchSize) + 1
        /\ Len(batches) = i \div batchSize
        /\ store = KeysOf(0, i - 1)
        /\ Cardinality(store) = i
        /\ txw = {}
        /\ \A w \in Workers : wpc[w] = "none"
        /\ sent = 0 /\ ~sendq /\ ~copyDone /\ ~ctxOpen

\* The second batch failed at commit after all its puts.
C10_Witness ==
    /\ seedRet = "commit"
    /\ i > 0
    /\ count = i + batchSize
    /\ batchSize > 1

(* ---- C11 -------------------------------------------------------------- *)
\* The positions of main at which a log.Fatal ends the run: the usage
\* message, bolt.Open, seed, stat and dbcopy.
FatalPcs == {"args", "open", "stat", "copy_view", "copy_stream"} \cup SeedPcs

\* C11 as stated: a run that has ended has status 0 if and only if none of
\* the fatal errors (missing path, open, seeding, inspection, export)
\* occurred; after a missing path no store file was opened, after an open,
\* seeding or inspection failure no worker was started, and after an export
\* failure the third token was neither sent nor received.
C11_FatalGating ==
    pc = "done" =>
        /\ exitCode = 0 <=> diedAt \notin FatalPcs
        /\ diedAt = "args" => fileExists = existed
        /\ diedAt \in {"args", "open", "stat"} \cup SeedPcs =>
               /\ \A w \in Workers : wpc[w] = "none"
               /\ sent = 0 /\ ~sendq /\ ctxN = 0
        /\ diedAt \in {"copy_view", "copy_stream"} =>
               /\ sent = 2 /\ ~sendq /\ got[3] = {}
               /\ ~copyDone /\ ~ctxOpen

\* A run on a file that an earlier run created and left without a "root"
\* bucket ended in a panic of its warmup worker: none of the fatal errors
\* occurred in it, and its status is not 0.
C11_Witness ==
    /\ pc = "done" /\ exitCode = 2 /\ diedAt = "panic"
    /\ existed /\ ~bucketExists
    /\ seedRet = "none"
    /\ wpc[1] = "top"

(* ---- C12 -------------------------------------------------------------- *)
\* A step in which iterate's db.View returned an error: fn did not run and
\* the worker went from the top of its loop straight to its log line.
ViewFailed(w) == wpc[w] = "top" /\ wpc'[w] = "log"

\* C12 as stated: no error is swallowed. An error of seed's Update has ended
\* the process with status 1; a step in which stat's or dbcopy's View fails
\* ends it; a step in which a worker's View fails ends it too, so every
\* iteration a worker has counted is one whose transaction ran and was
\* released.
C12_NoErrorSwallowed ==
    /\ [](seedRet \in SeedTxErrors => pc = "done" /\ exitCode = 1)
    /\ [](diedAt \in {"stat", "copy_view", "copy_stream"} => exitCode = 1)
    /\ [](\A w \in Workers :
            wpc[w] \in {"poll", "report"} => n[w] = closed[w])
    /\ [][\A w \in Workers :
            ViewFailed(w) => pc' = "done" /\ exitCode' # 0]_vars

\* The warmup worker's only View failed; it counted an iteration all the
\* same, received the token, and main went on to the next phase.
C12_Witness ==
    /\ pc = "go2"
    /\ wpc[1] = "report"
    /\ n[1] = 1 /\ opened[1] = 0 /\ closed[1] = 0
    /\ seen[1] = {0}

(* ---- C13 -------------------------------------------------------------- *)
\* C13: a worker that is at its poll or has left its loop for its report has
\* an iteration count n of at least 1, equal to the number of read
\* transactions it began and released, so the divisor of its average is
\* never 0; this holds for each of the three workers.
C13_CountAtLeastOne ==
    \A w \in Workers :
        wpc[w] \in {"poll", "report"} =>
            /\ n[w] >= 1
            /\ n[w] = closed[w]
            /\ opened[w] = closed[w]

\* The warmup worker is about to report after a single iteration, with main
\* parked in its send before that iteration was counted.
C13_Witness ==
    /\ wpc[1] = "report"
    /\ got[1] = {"send1"}
    /\ parkN[1] = 0
    /\ n[1] = 1 /\ closed[1] = 1

(* ---- C14 -------------------------------------------------------------- *)
\* C14 as stated: when main has returned with status 0, the phase-3 worker
\* has already printed its "iterate: avg" report.
C14_ReportBeforeExit ==
    (pc = "done" /\ exitCode = 0) => wpc[3] = "done"

\* Main slept its 100ms and returned while the phase-3 worker, which had
\* received the token, had not yet printed its report.
C14_Witness ==
    /\ pc = "done" /\ exitCode = 0 /\ diedAt = "return"
    /\ got[3] = {"send3"}
    /\ wpc[3] = "report"
    /\ wpc[1] = "done" /\ wpc[2] = "done"

(* ---- C15 -------------------------------------------------------------- *)
\* Main's positions after Warmup.
AfterWarmupPcs == PhasePcs \ {"go1", "send1"}

\* C15: the Warmup rendezvous. Main is past its first send only when that
\* send has been received by the warmup worker, which by then has logged a
\* complete iteration over the store; and the step that completes the send
\* is taken by the warmup worker at its poll, with at least one transaction
\* begun and released, none open, and its iteration counted.
C15_WarmupRendezvous ==
    /\ []((pc \in AfterWarmupPcs \/ sent >= 1) =>
            /\ got[1] = {"send1"}
            /\ LeftLoop(1)
            /\ seen[1] = {Cardinality(Below(store))})
    /\ [][(sent = 0 /\ sent' = 1) =>
            /\ pc = "send1" /\ pc' = "go2"
            /\ wpc[1] = "poll" /\ wpc'[1] = "report"
            /\ n[1] >= 1
            /\ closed[1] = n[1] /\ opened[1] = closed[1]
            /\ ~txOpen[1]]_vars

\* Main is starting IsolatedScan after a warmup over the fully seeded store
\* that counted at least one key.
C15_Witness ==
    /\ pc = "go2"
    /\ FullySeeded
    /\ MaxIndex >= 1
    /\ seen[1] = {MaxIndex}
    /\ got[1] = {"send1"}

ScanTxOpen == {w \in Workers : txOpen[w]}
ReadTxOpen == Cardinality(ScanTxOpen) + (IF ctxOpen THEN 1 ELSE 0)
\* seed's read-write transaction is open between Update's begin and its
\* commit or rollback.
RwTxOpen == pc \in {"seed_bucket", "seed_put"}

\* C17: transaction lifetimes. A worker has begun at most one transaction
\* more than it has released, and has one open only between the top of an
\* iteration and the end of View, never at its log line, at its poll or
\* after its loop; inside the loop the transactions it has begun are one
\* per iteration. dbcopy begins one transaction and has released it when it
\* returns. Once the phases have begun, at most one scan transaction and at
\* most two read transactions are open, and no read-write transaction.
C17_TxLifetime ==
    /\ \A w \in Workers :
        /\ opened[w] = closed[w] + (IF txOpen[w] THEN 1 ELSE 0)
        /\ txOpen[w] <=> wpc[w] \in {"walk", "close"}
        /\ InLoop(w) =>
               opened[w] = n[w] + (IF wpc[w] \in {"walk", "close", "log"}
                                   THEN 1 ELSE 0)
        /\ LeftLoop(w) => ~txOpen[w] /\ opened[w] = closed[w]
    /\ ctxN <= 1
    /\ ctxOpen => ctxN = 1 /\ diedAt \in {"", "panic"}
    /\ copyDone => ctxN = 1 /\ ~ctxOpen
    /\ (pc \in PhasePcs \/ \E w \in Workers : wpc[w] # "none") =>
           /\ Cardinality(ScanTxOpen) <= 1
           /\ ReadTxOpen <= 2
           /\ ~RwTxOpen /\ txw = {}

\* The phase-3 worker is in the transaction of its second iteration while
\* dbcopy's transaction is open: two read transactions at once.
C17_Witness ==
    /\ txOpen[3] /\ ctxOpen
    /\ opened[3] = 2 /\ closed[3] = 1
    /\ ReadTxOpen = 2

(* ---- C18 -------------------------------------------------------------- *)
\* ceil(itemCount / batchSize): the loop steps i = 0, batchSize, ... below
\* itemCount.
SeedSteps == (itemCount + batchSize - 1) \div batchSize
SeedWritten == SeedSteps * batchSize

\* C18: the count check for any constants. When seed's loop has ended, it
\* has committed ceil(itemCount/batchSize) whole batches, and the store
\* holds the ceil(itemCount/batchSize)*batchSize keys from 0 up, surplus
\* keys from itemCount up included. seed returns nil exactly when batchSize
\* divides itemCount, and returns the count error only then, with all those
\* records left in the store.
C18_SeedCountCheck ==
    /\ (pc = "seed_verify" \/ seedRet \in {"nil", "count"}) =>
           /\ count = SeedWritten
           /\ Len(batches) = SeedSteps
           /\ \A b \in 1..Len(batches) : Cardinality(batches[b]) = batchSize
           /\ store = KeysOf(0, SeedWritten - 1)
           /\ Cardinality(store) = SeedWritten
    /\ seedRet = "nil" => itemCount % batchSize = 0
    /\ seedRet = "count" =>
           /\ itemCount % batchSize # 0
           /\ pc = "done" /\ exitCode = 1
           /\ store \ KeysOf(0, itemCount - 1) =
                  KeysOf(itemCount, SeedWritten - 1)
           /\ Cardinality(store) > itemCount

\* seed returned the count error with a surplus record in the store.
C18_Witness ==
    /\ seedRet = "count"
    /\ itemCount = 3 /\ batchSize = 2
    /\ Cardinality(store) = 4
    /\ PutUint64(3) \in store

(* ---- C19 -------------------------------------------------------------- *)
\* A run on a file that an earlier run created and left with fewer than
\* itemCount records.
LaterRun == existed /\ Cardinality(store) < itemCount

\* C19 as stated: a run on a file that an earlier, failed run left behind
\* does not enter seed, every later run finds the records as they were,
\* still fewer than itemCount, and the run goes through its scan phases on
\* what is there, a store with no "root" bucket included: it does not end
\* in an error of its scans.
C19_RerunScansIncomplete ==
    /\ [](LaterRun => ~SeedEntered /\ diedAt # "panic")
    /\ [][LaterRun => LaterRun' /\ store' = store]_vars

\* A later run on a file left with no records: seed was skipped, and the
\* warmup worker's first transaction found no "root" bucket and panicked;
\* phases 2 and 3 never ran.
C19_Witness ==
    /\ LaterRun
    /\ ~bucketExists /\ store = {}
    /\ seedRet = "none" /\ ~isNew
    /\ pc = "done" /\ exitCode = 2
    /\ opened[1] = 0 /\ sent = 0
    /\ wpc[2] = "none" /\ wpc[3] = "none"
====
